---------------------------- MODULE Spec2Model ----------------------------
(***************************************************************************)
(* PY05 "Code Nexus": the polymorphic stream handlers                      *)
(* (src/ex1/data_stream.py and src/main.py) and the stage / pipeline /     *)
(* manager engine (src/ex2/nexus_pipeline.py and src/ex2/main.py), and    *)
(* the numeric processor of src/ex0/stream_processor.py.                   *)
(*                                                                         *)
(* Python values are tagged records (field k is the Python type).  A str   *)
(* is a sequence of one-character strings, so that split, substring tests  *)
(* and number parsing are computed on the characters.  A float is held in  *)
(* tenths (22.5 is 225): every literal of the model has at most one        *)
(* fractional digit.                                                       *)
(***************************************************************************)
EXTENDS Integers, Sequences, FiniteSets, TLC

VARIABLES
    file,           \* which source file's classes are instantiated
    cls,            \* class of the stream handler under execution
    sensor_report,  \* SensorStream.__sensor_report       (ex1)
    avg_t,          \* SensorStream.__avg_t, in tenths    (ex1)
    buys,           \* TransactionStream.__buys           (ex1)
    sells,          \* TransactionStream.__sells          (ex1)
    events,         \* EventStream.__events               (ex1)
    error,          \* EventStream.__error                (ex1)
    sum_data,       \* NumericProcessor.sum_data, a class attribute (ex0)
    avg_data,       \* NumericProcessor.avg_data, a class attribute (ex0)
    other,          \* the aggregates of a second handler of the same class
    calls,          \* number of operations issued so far (bounds the run)
    pipes,          \* the ProcessingPipeline objects constructed so far
    _pipelines,     \* NexusManager._pipelines / .pipelines: indices into pipes
    last            \* the last call: operation, arguments, state before, outcome

vars == <<file, cls, sensor_report, avg_t, buys, sells, events, error,
          sum_data, avg_data, other, calls, pipes, _pipelines, last>>

streamVars == <<cls, sensor_report, avg_t, buys, sells, events, error>>
nexusVars == <<pipes, _pipelines>>
instVars == <<sum_data, avg_data, other>>

----------------------------------------------------------------------------
(* Bounds of the model.                                                    *)

MaxBatch == 3
MaxCalls == 2
MaxStages == 3
MaxPipes == 2

----------------------------------------------------------------------------
(* Python values.                                                          *)

PyNone == [k |-> "NoneType"]
PyStr(s) == [k |-> "str", s |-> s]
PyInt(n) == [k |-> "int", n |-> n]
PyFloat(t) == [k |-> "float", n |-> t]
PyList(l) == [k |-> "list", l |-> l]
PyDict(d) == [k |-> "dict", d |-> d]

IsStr(v) == v.k = "str"
IsList(v) == v.k = "list"
IsDict(v) == v.k = "dict"

\* no call is in progress and no outcome is held
Idle == [op |-> "idle"]

(* Outcome of a call: a normal return of a value, or an exception that     *)
(* leaves the call.                                                        *)
Return(v) == [raised |-> FALSE, exc |-> "", ret |-> v]
Raise(e) == [raised |-> TRUE, exc |-> e, ret |-> PyNone]

Digits == {"0", "1", "2", "3", "4", "5", "6", "7", "8", "9"}

DigitVal(c) ==
    CASE c = "0" -> 0 [] c = "1" -> 1 [] c = "2" -> 2 [] c = "3" -> 3
      [] c = "4" -> 4 [] c = "5" -> 5 [] c = "6" -> 6 [] c = "7" -> 7
      [] c = "8" -> 8 [] c = "9" -> 9

RECURSIVE DecVal(_)
DecVal(s) ==
    IF s = <<>> THEN 0
    ELSE 10 * DecVal(SubSeq(s, 1, Len(s) - 1)) + DigitVal(s[Len(s)])

AllDigits(s) == \A i \in 1..Len(s) : s[i] \in Digits

Unsigned(s) == IF s # <<>> /\ s[1] \in {"+", "-"} THEN Tail(s) ELSE s
SignOf(s) == IF s # <<>> /\ s[1] = "-" THEN -1 ELSE 1

\* str.split(sep) for a one-character sep: always at least one part.
RECURSIVE split(_, _)
split(s, sep) ==
    IF \A i \in 1..Len(s) : s[i] # sep THEN <<s>>
    ELSE LET i == CHOOSE j \in 1..Len(s) :
                     s[j] = sep /\ \A h \in 1..(j - 1) : s[h] # sep
         IN  <<SubSeq(s, 1, i - 1)>> \o split(SubSeq(s, i + 1, Len(s)), sep)

\* sub in s, for two str
Contains(s, sub) ==
    \E i \in 0..(Len(s) - Len(sub)) :
        \A j \in 1..Len(sub) : s[i + j] = sub[j]

\* int(s) for a str s: an optional sign and one or more digits, else
\* ValueError.  (The model's strings hold no whitespace and no underscore.)
int(s) ==
    LET u == Unsigned(s)
    IN  IF u # <<>> /\ AllDigits(u)
        THEN [ok |-> TRUE, v |-> SignOf(s) * DecVal(u)]
        ELSE [ok |-> FALSE, v |-> 0]

\* float(s) for a str s, in tenths: an optional sign, digits with at most
\* one point and at least one digit, else ValueError.  (The model's strings
\* hold no exponent, "inf" or "nan", and at most one fractional digit.)
float(s) ==
    LET u == Unsigned(s)
        p == split(u, ".")
        whole == p[1]
        frac == IF Len(p) = 2 THEN p[2] ELSE <<>>
    IN  IF /\ Len(p) <= 2
           /\ AllDigits(whole) /\ AllDigits(frac)
           /\ Len(whole) + Len(frac) > 0
           /\ Len(frac) <= 1
        THEN [ok |-> TRUE,
              v |-> SignOf(s) * (10 * DecVal(whole) + DecVal(frac))]
        ELSE [ok |-> FALSE, v |-> 0]

----------------------------------------------------------------------------
(* String literals of the sources, as character sequences.                 *)

s_temp == <<"t", "e", "m", "p">>
s_buy == <<"b", "u", "y">>
s_sell == <<"s", "e", "l", "l">>
s_error == <<"e", "r", "r", "o", "r">>
s_large == <<"l", "a", "r", "g", "e">>
s_high_value == <<"h", "i", "g", "h", "_", "v", "a", "l", "u", "e">>
s_critical == <<"c", "r", "i", "t", "i", "c", "a", "l">>
s_alert == <<"a", "l", "e", "r", "t">>
s_crit == <<"c", "r", "i", "t">>
s_None == <<"N", "o", "n", "e">>

\* A formatted str: the f-string of the source and the values it
\* interpolates, in order.
Summary(fmt, args) == [k |-> "str", fmt |-> fmt, args |-> args]

DigitChar(d) ==
    CASE d = 0 -> "0" [] d = 1 -> "1" [] d = 2 -> "2" [] d = 3 -> "3"
      [] d = 4 -> "4" [] d = 5 -> "5" [] d = 6 -> "6" [] d = 7 -> "7"
      [] d = 8 -> "8" [] d = 9 -> "9"

RECURSIVE NatChars(_)
NatChars(n) ==
    IF n < 10 THEN <<DigitChar(n)>>
    ELSE NatChars(n \div 10) \o <<DigitChar(n % 10)>>

\* str(v), also what an f-string interpolates: a float (in tenths) is
\* written with its one fractional digit
str(v) ==
    CASE v.k = "str" -> v.s
      [] v.k = "int" -> IF v.n < 0 THEN <<"-">> \o NatChars(-v.n)
                        ELSE NatChars(v.n)
      [] v.k = "float" ->
             LET a == IF v.n < 0 THEN -v.n ELSE v.n
             IN  (IF v.n < 0 THEN <<"-">> ELSE <<>>)
                 \o NatChars(a \div 10) \o <<".", DigitChar(a % 10)>>
      [] v.k = "NoneType" -> s_None

----------------------------------------------------------------------------
(* src/ex1/data_stream.py: handlers with running aggregates.               *)
(* Each loop returns the fields as the loop leaves them and whether an     *)
(* exception ended it: the fields are assigned item by item, so what was   *)
(* assigned before the exception stays assigned.                           *)

RECURSIVE SensorStream_loop(_, _, _)
SensorStream_loop(items, sr, at) ==
    IF items = <<>> THEN [exc |-> FALSE, sensor_report |-> sr, avg_t |-> at]
    ELSE LET data == Head(items)
             data_s == split(data.s, ":")
         IN  IF ~IsStr(data)
             THEN [exc |-> TRUE, sensor_report |-> sr, avg_t |-> at]
             ELSE IF Len(data_s) <= 1
             THEN [exc |-> TRUE, sensor_report |-> sr, avg_t |-> at]
             ELSE IF ~float(data_s[2]).ok
             THEN [exc |-> TRUE, sensor_report |-> sr, avg_t |-> at]
             ELSE SensorStream_loop(Tail(items), sr + 1,
                      IF data_s[1] = s_temp THEN float(data_s[2]).v ELSE at)

\* Mutant: the reading count restarts at 0 with every batch.
SensorStream_process_batch_restart(data_batch, sr, at) ==
    LET r == IF ~IsList(data_batch)
             THEN [exc |-> TRUE, sensor_report |-> sr, avg_t |-> at]
             ELSE SensorStream_loop(data_batch.l, 0, at)
    IN  [sensor_report |-> r.sensor_report,
         avg_t |-> r.avg_t,
         out |-> IF r.exc
                 THEN Return(Summary("Sensor analysis: 0 readings.", <<>>))
                 ELSE Return(Summary(
                     "Sensor analysis: {} readings processed, avg temp: {:.1f}C",
                     <<r.sensor_report, r.avg_t>>))]

SensorStream_process_batch(data_batch, sr, at) ==
    LET r == IF ~IsList(data_batch)
             THEN [exc |-> TRUE, sensor_report |-> sr, avg_t |-> at]
             ELSE SensorStream_loop(data_batch.l, sr, at)
    IN  [sensor_report |-> r.sensor_report,
         avg_t |-> r.avg_t,
         out |-> IF r.exc
                 THEN Return(Summary("Sensor analysis: 0 readings.", <<>>))
                 ELSE Return(Summary(
                     "Sensor analysis: {} readings processed, avg temp: {:.1f}C",
                     <<r.sensor_report, r.avg_t>>))]

RECURSIVE TransactionStream_loop(_, _, _)
TransactionStream_loop(items, b, s) ==
    IF items = <<>> THEN [exc |-> FALSE, buys |-> b, sells |-> s]
    ELSE LET data == Head(items)
             data_s == split(data.s, ":")
             fail == [exc |-> TRUE, buys |-> b, sells |-> s]
         IN  IF ~IsStr(data) THEN fail
             ELSE IF data_s[1] = s_buy
             THEN IF Len(data_s) < 2 \/ ~int(data_s[2]).ok THEN fail
                  ELSE TransactionStream_loop(Tail(items),
                           b + int(data_s[2]).v, s)
             ELSE IF data_s[1] = s_sell
             THEN IF Len(data_s) < 2 \/ ~int(data_s[2]).ok THEN fail
                  ELSE TransactionStream_loop(Tail(items),
                           b, s + int(data_s[2]).v)
             ELSE fail

\* Mutant: the "+" prefix is given to positive totals only (n_f > 0).
TransactionStream_process_batch_positive(data_batch, b, s) ==
    LET r == IF ~IsList(data_batch)
             THEN [exc |-> TRUE, buys |-> b, sells |-> s]
             ELSE TransactionStream_loop(data_batch.l, b, s)
        n_f == r.buys - r.sells
    IN  [buys |-> r.buys,
         sells |-> r.sells,
         out |-> IF r.exc
                 THEN Return(Summary("ransaction analysis: 0 operations.", <<>>))
                 ELSE Return(Summary(
                     "ransaction analysis: {} operations, net flow: {}{} units",
                     <<Len(data_batch.l),
                       IF n_f > 0 THEN "+" ELSE "", n_f>>))]

TransactionStream_process_batch(data_batch, b, s) ==
    LET r == IF ~IsList(data_batch)
             THEN [exc |-> TRUE, buys |-> b, sells |-> s]
             ELSE TransactionStream_loop(data_batch.l, b, s)
        n_f == r.buys - r.sells
    IN  [buys |-> r.buys,
         sells |-> r.sells,
         out |-> IF r.exc
                 THEN Return(Summary("ransaction analysis: 0 operations.", <<>>))
                 ELSE Return(Summary(
                     "ransaction analysis: {} operations, net flow: {}{} units",
                     <<Len(data_batch.l),
                       IF n_f >= 0 THEN "+" ELSE "", n_f>>))]

RECURSIVE EventStream_loop(_, _, _)
EventStream_loop(items, ev, er) ==
    IF items = <<>> THEN [exc |-> FALSE, events |-> ev, error |-> er]
    ELSE LET data == Head(items)
         IN  IF ~IsStr(data)
             THEN [exc |-> TRUE, events |-> ev, error |-> er]
             ELSE EventStream_loop(Tail(items), ev + 1,
                      IF data.s = s_error THEN er + 1 ELSE er)

\* Mutant: every str item is counted as an error.
EventStream_process_batch_allerrors(data_batch, ev, er) ==
    LET r == IF ~IsList(data_batch)
             THEN [exc |-> TRUE, events |-> ev, error |-> er]
             ELSE EventStream_loop(data_batch.l, ev, er)
    IN  [events |-> r.events,
         error |-> er + (r.events - ev),
         out |-> IF r.exc
                 THEN Return(Summary("Event analysis: 0 events", <<>>))
                 ELSE Return(Summary(
                     "Event analysis: {} events, {} error detected",
                     <<r.events, er + (r.events - ev)>>))]

EventStream_process_batch(data_batch, ev, er) ==
    LET r == IF ~IsList(data_batch)
             THEN [exc |-> TRUE, events |-> ev, error |-> er]
             ELSE EventStream_loop(data_batch.l, ev, er)
    IN  [events |-> r.events,
         error |-> r.error,
         out |-> IF r.exc
                 THEN Return(Summary("Event analysis: 0 events", <<>>))
                 ELSE Return(Summary(
                     "Event analysis: {} events, {} error detected",
                     <<r.events, r.error>>))]

\* "not v": None, the empty str, list and dict, and zero are falsy
Falsy(v) ==
    CASE v.k = "NoneType" -> TRUE
      [] v.k = "str" -> v.s = <<>>
      [] v.k = "list" -> v.l = <<>>
      [] v.k = "dict" -> DOMAIN v.d = {}
      [] v.k \in {"int", "float"} -> v.n = 0

\* Mutant: without criteria nothing is kept (an empty list is returned).
DataStream_filter_data_nothing(data_batch, criteria) ==
    IF Falsy(criteria) THEN Return(PyList(<<>>))
    ELSE IF ~IsList(data_batch) THEN Raise("TypeError")
    ELSE IF \E i \in 1..Len(data_batch.l) : ~IsStr(data_batch.l[i])
    THEN Raise("TypeError")
    ELSE LET keep(data) == Contains(data.s, criteria.s)
         IN  Return(PyList(SelectSeq(data_batch.l, keep)))

\* DataStream.filter_data: "criteria in data" raises TypeError for a data
\* that is no container (an int, None); the batch itself must be iterable.
DataStream_filter_data(data_batch, criteria) ==
    IF Falsy(criteria) THEN Return(data_batch)
    ELSE IF ~IsList(data_batch) THEN Raise("TypeError")
    ELSE IF \E i \in 1..Len(data_batch.l) : ~IsStr(data_batch.l[i])
    THEN Raise("TypeError")
    ELSE LET keep(data) == Contains(data.s, criteria.s)
         IN  Return(PyList(SelectSeq(data_batch.l, keep)))

LargeThreshold == 100

\* TransactionStream.filter_data: the comprehension's conditions are
\* evaluated left to right, so int() is reached only for a str with a ":".
TransactionStream_filter_data(data_batch, criteria) ==
    IF criteria = PyStr(s_large)
    THEN IF ~IsList(data_batch) THEN Raise("TypeError")
         ELSE LET reached(item) == IsStr(item) /\ Contains(item.s, <<":">>)
                  keep(item) == /\ reached(item)
                                /\ int(split(item.s, ":")[2]).v >= LargeThreshold
              IN  IF \E i \in 1..Len(data_batch.l) :
                         /\ reached(data_batch.l[i])
                         /\ ~int(split(data_batch.l[i].s, ":")[2]).ok
                  THEN Raise("ValueError")
                  ELSE Return(PyList(SelectSeq(data_batch.l, keep)))
    ELSE DataStream_filter_data(data_batch, criteria)

----------------------------------------------------------------------------
(* src/main.py: handlers that hold no aggregate; every summary is computed *)
(* from the batch alone, and nothing is caught inside process_batch.       *)

RECURSIVE SumSeq(_)
SumSeq(xs) == IF xs = <<>> THEN 0 ELSE Head(xs) + SumSeq(Tail(xs))

\* the temps list of SensorStream.process_batch: a ValueError of float()
\* is caught per item (continue)
RECURSIVE main_SensorStream_temps(_)
main_SensorStream_temps(items) ==
    IF items = <<>> THEN <<>>
    ELSE LET item == Head(items)
             rest == main_SensorStream_temps(Tail(items))
         IN  IF IsStr(item) /\ Contains(item.s, s_temp \o <<":">>)
             THEN LET f == float(split(item.s, ":")[2])
                  IN  IF f.ok THEN <<f.v>> \o rest ELSE rest
             ELSE rest

\* avg is kept as the exact quotient sum / len (tenths), 0 / 1 when there
\* is no temperature
main_SensorStream_process_batch(data_batch) ==
    IF ~IsList(data_batch) THEN Raise("TypeError")
    ELSE LET temps == main_SensorStream_temps(data_batch.l)
             avg == IF temps # <<>>
                    THEN [num |-> SumSeq(temps), den |-> Len(temps)]
                    ELSE [num |-> 0, den |-> 1]
         IN  Return(Summary(
                 "Sensor analysis: {} readings processed, avg temp: {:.1f}C",
                 <<Len(data_batch.l), avg>>))

\* "action, val_str = item.split(':')" raises ValueError unless there are
\* exactly two parts; so does int(val_str) on a non-number
RECURSIVE main_TransactionStream_loop(_, _)
main_TransactionStream_loop(items, net_flow) ==
    IF items = <<>> THEN [exc |-> "", net_flow |-> net_flow]
    ELSE LET item == Head(items)
             parts == split(item.s, ":")
         IN  IF IsStr(item) /\ Contains(item.s, <<":">>)
             THEN IF Len(parts) # 2 \/ ~int(parts[2]).ok
                  THEN [exc |-> "ValueError", net_flow |-> net_flow]
                  ELSE main_TransactionStream_loop(Tail(items),
                           IF parts[1] = s_buy
                           THEN net_flow + int(parts[2]).v
                           ELSE IF parts[1] = s_sell
                           THEN net_flow - int(parts[2]).v
                           ELSE net_flow)
             ELSE main_TransactionStream_loop(Tail(items), net_flow)

main_TransactionStream_process_batch(data_batch) ==
    IF ~IsList(data_batch) THEN Raise("TypeError")
    ELSE LET r == main_TransactionStream_loop(data_batch.l, 0)
         IN  IF r.exc # "" THEN Raise(r.exc)
             ELSE Return(Summary(
                 "Transaction analysis: {} operations, net flow: {}{} units",
                 <<Len(data_batch.l),
                   IF r.net_flow >= 0 THEN "+" ELSE "", r.net_flow>>))

main_EventStream_process_batch(data_batch) ==
    IF ~IsList(data_batch) THEN Raise("AttributeError")
    ELSE LET errors == Cardinality({i \in 1..Len(data_batch.l) :
                                       data_batch.l[i] = PyStr(s_error)})
         IN  Return(Summary(
                 "Event analysis: {} events, {} error detected",
                 <<Len(data_batch.l), errors>>))

main_DataStream_filter_data(data_batch, criteria) ==
    IF Falsy(criteria) THEN Return(data_batch)
    ELSE IF ~IsList(data_batch) THEN Raise("TypeError")
    ELSE LET keep(item) == Contains(str(item), str(criteria))
         IN  Return(PyList(SelectSeq(data_batch.l, keep)))

main_SensorStream_filter_data(data_batch, criteria) ==
    IF criteria = PyStr(s_critical)
    THEN IF ~IsList(data_batch) THEN Raise("TypeError")
         ELSE LET keep(x) == \/ Contains(str(x), s_alert)
                             \/ Contains(str(x), s_crit)
              IN  Return(PyList(SelectSeq(data_batch.l, keep)))
    ELSE main_DataStream_filter_data(data_batch, criteria)

HighValueThreshold == 500

\* the comprehension of TransactionStream.filter_data raises at the first
\* item it cannot read: AttributeError (no split), IndexError (no ":"),
\* ValueError (no number)
main_TransactionStream_filter_data(data_batch, criteria) ==
    IF criteria = PyStr(s_high_value)
    THEN IF ~IsList(data_batch) THEN Raise("TypeError")
         ELSE LET bad(x) == \/ ~IsStr(x)
                            \/ Len(split(x.s, ":")) < 2
                            \/ ~int(split(x.s, ":")[2]).ok
                  keep(x) == int(split(x.s, ":")[2]).v > HighValueThreshold
              IN  IF \E i \in 1..Len(data_batch.l) : bad(data_batch.l[i])
                  THEN LET i == CHOOSE j \in 1..Len(data_batch.l) :
                                    /\ bad(data_batch.l[j])
                                    /\ \A h \in 1..(j - 1) : ~bad(data_batch.l[h])
                           x == data_batch.l[i]
                       IN  Raise(IF ~IsStr(x) THEN "AttributeError"
                                 ELSE IF Len(split(x.s, ":")) < 2
                                 THEN "IndexError" ELSE "ValueError")
                  ELSE Return(PyList(SelectSeq(data_batch.l, keep)))
    ELSE Return(data_batch)

----------------------------------------------------------------------------
(* src/ex2: payloads and the three stages.  A dict is a function from its  *)
(* keys to values.  The one-character string "deg" stands for the degree   *)
(* sign.  A stage call returns: exc, the exception that leaves it ("" for  *)
(* none); out, the value returned; arg, the object passed in as the call   *)
(* leaves it; same, whether out is that very object.                       *)

s_INVALID_DATA ==
    <<"I", "N", "V", "A", "L", "I", "D", "_", "D", "A", "T", "A">>
s_valid == <<"v", "a", "l", "i", "d">>
s_csv == <<"c", "s", "v">>
s_user_activity ==
    <<"U", "s", "e", "r", " ", "a", "c", "t", "i", "v", "i", "t", "y",
      " ", "l", "o", "g", "g", "e", "d", ":", " ">>
s_actions_processed ==
    <<" ", "a", "c", "t", "i", "o", "n", "s", " ", "p", "r", "o", "c",
      "e", "s", "s", "e", "d">>
nexus_s_temperature_reading ==
    <<"P", "r", "o", "c", "e", "s", "s", "e", "d", " ", "T", "e", "m",
      "p", "e", "r", "a", "t", "u", "r", "e", " ", "r", "e", "a", "d",
      "i", "n", "g", ":">>
s_high_range ==
    <<" ", "(", "H", "i", "g", "h", " ", "r", "a", "n", "g", "e", ")">>
s_low_range ==
    <<" ", "(", "L", "o", "w", " ", "r", "a", "n", "g", "e", ")">>
nexus_s_normal_range ==
    <<" ", "(", "N", "o", "r", "m", "a", "l", " ", "r", "a", "n", "g",
      "e", ")">>
s_stream_summary ==
    <<"S", "t", "r", "e", "a", "m", " ", "s", "u", "m", "m", "a", "r",
      "y", ":", " ", "5", " ", "r", "e", "a", "d", "i", "n", "g", "s",
      ",", " ", "a", "v", "g", ":", " ", "2", "2", ".", "1", "deg",
      "C">>
s_temperature_reading ==
    <<"P", "r", "o", "c", "e", "s", "s", "e", "d", " ", "t", "e", "m",
      "p", "e", "r", "a", "t", "u", "r", "e", " ", "r", "e", "a", "d",
      "i", "n", "g", ":", " ">>
s_normal_range ==
    <<"deg", "C", " ", "(", "N", "o", "r", "m", "a", "l", " ", "r",
      "a", "n", "g", "e", ")">>
s_user_action_timestamp ==
    <<"u", "s", "e", "r", ",", "a", "c", "t", "i", "o", "n", ",", "t",
      "i", "m", "e", "s", "t", "a", "m", "p">>
s_real_time ==
    <<"R", "e", "a", "l", "-", "t", "i", "m", "e", " ", "s", "e", "n",
      "s", "o", "r", " ", "s", "t", "r", "e", "a", "m">>

StageResult(exc, out, arg, same) ==
    [exc |-> exc, out |-> out, arg |-> arg, same |-> same]

IsNumber(v) == v.k \in {"int", "float"}
Tenths(v) == IF v.k = "float" THEN v.n ELSE 10 * v.n

\* src/ex2/nexus_pipeline.py
nexus_InputStage_process(data) ==
    IF Falsy(data) THEN StageResult("ValueError", PyNone, data, FALSE)
    ELSE StageResult("", data, data, TRUE)

\* data["status"] = "valid" is an item assignment on the dict passed in
nexus_TransformStage_process(data) ==
    IF IsDict(data) /\ "sensor" \in DOMAIN data.d
    THEN LET d == PyDict(("status" :> PyStr(s_valid)) @@ data.d)
         IN  StageResult("", d, d, TRUE)
    ELSE IF data = PyStr(s_INVALID_DATA)
    THEN StageResult("ValueError", PyNone, data, FALSE)
    ELSE IF IsStr(data) /\ Contains(data.s, <<",">>)
    THEN LET inner == SubSeq(data.s, 2, Len(data.s) - 1)
             parts == split(inner, ",")
         IN  StageResult("",
                 PyDict([type |-> PyStr(s_csv),
                         headers |-> PyList([i \in 1..Len(parts) |->
                                                 PyStr(parts[i])]),
                         count |-> PyInt(1)]),
                 data, FALSE)
    ELSE StageResult("", data, data, TRUE)

HighAbove == 40
LowBelow == 5

\* data['value'], data['unit'] and data['count'] raise KeyError for a
\* missing key; "data['value'] > 40" raises for a value that is no number
nexus_OutputStage_process(data) ==
    IF IsDict(data)
    THEN IF "headers" \in DOMAIN data.d
         THEN IF "count" \notin DOMAIN data.d
              THEN StageResult("KeyError", PyNone, data, FALSE)
              ELSE StageResult("",
                       PyStr(s_user_activity \o str(data.d["count"])
                             \o s_actions_processed),
                       data, FALSE)
         ELSE IF "value" \notin DOMAIN data.d \/ "unit" \notin DOMAIN data.d
         THEN StageResult("KeyError", PyNone, data, FALSE)
         ELSE IF ~IsNumber(data.d["value"])
         THEN StageResult("TypeError", PyNone, data, FALSE)
         ELSE LET value == Tenths(data.d["value"])
                  range == IF value > 10 * HighAbove THEN s_high_range
                           ELSE IF value < 10 * LowBelow THEN s_low_range
                           ELSE nexus_s_normal_range
              IN  StageResult("",
                      PyStr(nexus_s_temperature_reading \o str(data.d["value"])
                            \o <<"deg">> \o str(data.d["unit"]) \o range),
                      data, FALSE)
    ELSE IF IsStr(data)
    THEN StageResult("", PyStr(s_stream_summary), data, FALSE)
    ELSE StageResult("TypeError", PyNone, data, FALSE)

\* Mutant: nothing is validated, every payload is returned.
InputStage_process_unvalidated(data) == StageResult("", data, data, TRUE)

\* src/ex2/main.py
InputStage_process(data) ==
    IF Falsy(data) THEN StageResult("ValueError", PyNone, data, FALSE)
    ELSE StageResult("", data, data, TRUE)

\* Mutant: the sentinel is not tested for; it is returned like any other
\* str without a comma.
TransformStage_process_no_sentinel(data) ==
    IF IsDict(data) /\ "sensor" \in DOMAIN data.d
    THEN LET d == PyDict(("status" :> PyStr(s_valid)) @@ data.d)
         IN  StageResult("", d, d, TRUE)
    ELSE IF IsStr(data) /\ Contains(data.s, <<",">>)
    THEN LET parts == split(data.s, ",")
         IN  StageResult("",
                 PyDict([type |-> PyStr(s_csv),
                         headers |-> PyList([i \in 1..Len(parts) |->
                                                 PyStr(parts[i])]),
                         count |-> PyInt(1)]),
                 data, FALSE)
    ELSE StageResult("", data, data, TRUE)

TransformStage_process(data) ==
    IF IsDict(data) /\ "sensor" \in DOMAIN data.d
    THEN LET d == PyDict(("status" :> PyStr(s_valid)) @@ data.d)
         IN  StageResult("", d, d, TRUE)
    ELSE IF IsStr(data) /\ Contains(data.s, <<",">>)
    THEN LET parts == split(data.s, ",")
         IN  StageResult("",
                 PyDict([type |-> PyStr(s_csv),
                         headers |-> PyList([i \in 1..Len(parts) |->
                                                 PyStr(parts[i])]),
                         count |-> PyInt(1)]),
                 data, FALSE)
    ELSE IF data = PyStr(s_INVALID_DATA)
    THEN StageResult("ValueError", PyNone, data, FALSE)
    ELSE StageResult("", data, data, TRUE)

\* dict.get(key) is None for a missing key
Get(d, key) == IF key \in DOMAIN d THEN d[key] ELSE PyNone

OutputStage_process(data) ==
    IF IsDict(data)
    THEN IF "sensor" \in DOMAIN data.d
         THEN StageResult("",
                  PyStr(s_temperature_reading
                        \o str(Get(data.d, "value")) \o s_normal_range),
                  data, FALSE)
         ELSE IF Get(data.d, "type") = PyStr(s_csv)
         THEN StageResult("",
                  PyStr(s_user_activity \o str(Get(data.d, "count"))
                        \o s_actions_processed),
                  data, FALSE)
         ELSE StageResult("", PyStr(<<>>), data, FALSE)
    ELSE StageResult("", PyStr(s_stream_summary), data, FALSE)

StageKinds == {"InputStage", "TransformStage", "OutputStage"}

\* stage.process(data), dispatched on the class of the stage object
nexus_Stage_process(stage, data) ==
    CASE stage = "InputStage" -> nexus_InputStage_process(data)
      [] stage = "TransformStage" -> nexus_TransformStage_process(data)
      [] stage = "OutputStage" -> nexus_OutputStage_process(data)

Stage_process(stage, data) ==
    CASE stage = "InputStage" -> InputStage_process(data)
      [] stage = "TransformStage" -> TransformStage_process(data)
      [] stage = "OutputStage" -> OutputStage_process(data)

----------------------------------------------------------------------------
(* src/ex2: pipelines and the manager.  A pipeline object is a record of   *)
(* its class and its stage list (the classes of the stage objects, in the  *)
(* order of add_stage).  A run keeps, besides its outcome: ran, the stage  *)
(* calls made, in order, each with the value passed; arg, the caller's     *)
(* payload object as the run leaves it.                                    *)

RunResult(exc, out, ran, arg) ==
    [exc |-> exc, out |-> out, ran |-> ran, arg |-> arg]

\* src/ex2/nexus_pipeline.py, ProcessingPipeline.process:
\*     for stage in self.__stages: data = stage.process(data)
RECURSIVE nexus_ProcessingPipeline_loop(_, _, _, _, _, _)
nexus_ProcessingPipeline_loop(stages, i, data, ran, alias, arg) ==
    IF i > Len(stages) THEN RunResult("", data, ran, arg)
    ELSE LET r == nexus_Stage_process(stages[i], data)
             ran2 == Append(ran, [stage |-> i, data |-> data])
             arg2 == IF alias THEN r.arg ELSE arg
         IN  IF r.exc # "" THEN RunResult(r.exc, PyNone, ran2, arg2)
             ELSE nexus_ProcessingPipeline_loop(stages, i + 1, r.out, ran2,
                                          alias /\ r.same, arg2)

\* Mutant: every stage is handed the caller's payload; data is not
\* threaded from one stage to the next.
RECURSIVE nexus_ProcessingPipeline_loop_unthreaded(_, _, _, _, _, _)
nexus_ProcessingPipeline_loop_unthreaded(stages, i, data, ran, alias, arg) ==
    IF i > Len(stages) THEN RunResult("", data, ran, arg)
    ELSE LET r == nexus_Stage_process(stages[i], arg)
             ran2 == Append(ran, [stage |-> i, data |-> arg])
         IN  IF r.exc # "" THEN RunResult(r.exc, PyNone, ran2, r.arg)
             ELSE nexus_ProcessingPipeline_loop_unthreaded(stages, i + 1, r.out,
                                                     ran2, alias, r.arg)

nexus_ProcessingPipeline_process_unthreaded(stages, data) ==
    nexus_ProcessingPipeline_loop_unthreaded(stages, 1, data, <<>>, TRUE, data)

nexus_ProcessingPipeline_process(stages, data) ==
    nexus_ProcessingPipeline_loop(stages, 1, data, <<>>, TRUE, data)

\* src/ex2/main.py, ProcessingPipeline._run_stages
RECURSIVE ProcessingPipeline_run_stages_loop(_, _, _, _, _, _)
ProcessingPipeline_run_stages_loop(stages, i, current_data, ran, alias, arg) ==
    IF i > Len(stages) THEN RunResult("", current_data, ran, arg)
    ELSE LET r == Stage_process(stages[i], current_data)
             ran2 == Append(ran, [stage |-> i, data |-> current_data])
             arg2 == IF alias THEN r.arg ELSE arg
         IN  IF r.exc # "" THEN RunResult(r.exc, PyNone, ran2, arg2)
             ELSE ProcessingPipeline_run_stages_loop(stages, i + 1, r.out, ran2,
                                        alias /\ r.same, arg2)

\* Mutant: the loop variable starts as None instead of the payload.
ProcessingPipeline_run_stages_from_none(stages, data) ==
    ProcessingPipeline_run_stages_loop(stages, 1, PyNone, <<>>, TRUE, data)

ProcessingPipeline_run_stages(stages, data) ==
    ProcessingPipeline_run_stages_loop(stages, 1, data, <<>>, TRUE, data)

\* JSONAdapter.process, CSVAdapter.process and StreamAdapter.process all
\* delegate: super().process(data) / self._run_stages(data)
nexus_Adapter_process(pipe, data) ==
    nexus_ProcessingPipeline_process(pipe.stages, data)
Adapter_process(pipe, data) == ProcessingPipeline_run_stages(pipe.stages, data)

\* isinstance(pipe, JSONAdapter) and format_type == "json", and so on
Matches(pipe, format_type) ==
    \/ pipe.cls = "JSONAdapter" /\ format_type = "json"
    \/ pipe.cls = "CSVAdapter" /\ format_type = "csv"
    \/ pipe.cls = "StreamAdapter" /\ format_type = "stream"

\* Outcome of a manager call: as Return / Raise, with msg (the format a
\* PipelineError names) and invoked (the pipeline objects whose process was
\* called, in order, as indices into pipes).
ManagerResult(raised, exc, msg, ret, invoked) ==
    [raised |-> raised, exc |-> exc, msg |-> msg, ret |-> ret,
     invoked |-> invoked]

\* src/ex2/nexus_pipeline.py, NexusManager.process_data: return at the
\* first match
nexus_NexusManager_process_data(ps, registry, data, format_type) ==
    IF \E j \in 1..Len(registry) : Matches(ps[registry[j]], format_type)
    THEN LET j == CHOOSE h \in 1..Len(registry) :
                      /\ Matches(ps[registry[h]], format_type)
                      /\ \A g \in 1..(h - 1) :
                             ~Matches(ps[registry[g]], format_type)
             r == nexus_Adapter_process(ps[registry[j]], data)
         IN  IF r.exc # ""
             THEN ManagerResult(TRUE, r.exc, "", PyNone, <<registry[j]>>)
             ELSE ManagerResult(FALSE, "", "", r.out, <<registry[j]>>)
    ELSE ManagerResult(TRUE, "PipelineError", format_type, PyNone, <<>>)

\* src/ex2/main.py, NexusManager.process_data: the loop has no
\* break, so target_pipe ends as the last match; the result of process is
\* dropped and a missing pipeline is only printed
NexusManager_process_data(ps, registry, data_packet, format_type) ==
    IF \E j \in 1..Len(registry) : Matches(ps[registry[j]], format_type)
    THEN LET j == CHOOSE h \in 1..Len(registry) :
                      /\ Matches(ps[registry[h]], format_type)
                      /\ \A g \in (h + 1)..Len(registry) :
                             ~Matches(ps[registry[g]], format_type)
             r == Adapter_process(ps[registry[j]], data_packet)
         IN  IF r.exc # ""
             THEN ManagerResult(TRUE, r.exc, "", PyNone, <<registry[j]>>)
             ELSE ManagerResult(FALSE, "", "", PyNone, <<registry[j]>>)
    ELSE ManagerResult(FALSE, "", "", PyNone, <<>>)

\* for pipe in chain: data = pipe.process(data); stops at the exception
RECURSIVE nexus_chain_loop(_, _, _, _, _)
nexus_chain_loop(ps, chain, k, curent_data, invoked) ==
    IF k > Len(chain) THEN [exc |-> "", out |-> curent_data, invoked |-> invoked]
    ELSE LET r == nexus_Adapter_process(ps[chain[k]], curent_data)
         IN  IF r.exc # ""
             THEN [exc |-> r.exc, out |-> curent_data,
                   invoked |-> Append(invoked, chain[k])]
             ELSE nexus_chain_loop(ps, chain, k + 1, r.out,
                             Append(invoked, chain[k]))

\* src/ex2/nexus_pipeline.py, NexusManager.execute_chain: the except branch
\* prints
\* and falls off the end of the function (None); only the else branch
\* returns curent_data
nexus_NexusManager_execute_chain(ps, data, chain) ==
    LET r == nexus_chain_loop(ps, chain, 1, data, <<>>)
    IN  IF r.exc # "" THEN ManagerResult(FALSE, "", "", PyNone, r.invoked)
        ELSE ManagerResult(FALSE, "", "", r.out, r.invoked)

RECURSIVE chain_loop(_, _, _, _, _)
chain_loop(ps, pipeline_chain, k, current_data, invoked) ==
    IF k > Len(pipeline_chain)
    THEN [exc |-> "", out |-> current_data, invoked |-> invoked]
    ELSE LET r == Adapter_process(ps[pipeline_chain[k]], current_data)
         IN  IF r.exc # ""
             THEN [exc |-> r.exc, out |-> current_data,
                   invoked |-> Append(invoked, pipeline_chain[k])]
             ELSE chain_loop(ps, pipeline_chain, k + 1, r.out,
                                   Append(invoked, pipeline_chain[k]))

\* src/ex2/main.py, NexusManager.execute_chain: no try
NexusManager_execute_chain(ps, initial_data, pipeline_chain) ==
    LET r == chain_loop(ps, pipeline_chain, 1, initial_data, <<>>)
    IN  IF r.exc # "" THEN ManagerResult(TRUE, r.exc, "", PyNone, r.invoked)
        ELSE ManagerResult(FALSE, "", "", r.out, r.invoked)

----------------------------------------------------------------------------
(* src/ex0/stream_processor.py: NumericProcessor.  sum_data and avg_data   *)
(* are attributes of the class; process assigns them on the class, never   *)
(* on self.  A quotient is held as an exact fraction in lowest terms (the  *)
(* rounding of the float division is not modelled).                        *)

RECURSIVE GCD(_, _)
GCD(a, b) == IF b = 0 THEN a ELSE GCD(b, a % b)

Abs(n) == IF n < 0 THEN -n ELSE n

\* the float n / d, d > 0
Quotient(n, d) ==
    LET g == GCD(Abs(n), d)
    IN  IF n = 0 THEN [k |-> "float", num |-> 0, den |-> 1]
        ELSE [k |-> "float", num |-> n \div g, den |-> d \div g]

\* int(num) in validate: a ValueError or TypeError makes validate False.
\* (The items of the model's data are int, str or None.)
IntAccepts(num) ==
    \/ num.k = "int"
    \/ num.k = "str" /\ int(num.s).ok

NumericProcessor_validate(data) ==
    /\ IsList(data)
    /\ Len(data.l) # 0
    /\ \A i \in 1..Len(data.l) : IntAccepts(data.l[i])

\* sum(data) over ints; a str item makes sum raise TypeError
RECURSIVE sum(_)
sum(l) == IF l = <<>> THEN 0 ELSE Head(l).n + sum(Tail(l))

s_not_validate == "Error: data was not validate, please verify your input"

NumericProcessor_process(data, sd, ad) ==
    IF NumericProcessor_validate(data)
    THEN IF \E i \in 1..Len(data.l) : data.l[i].k # "int"
         THEN [sum_data |-> sd, avg_data |-> ad, out |-> Raise("TypeError")]
         ELSE LET s == sum(data.l)
                  n == Len(data.l)
                  mean == Quotient(s, n)
              IN  [sum_data |-> sd + s,
                   avg_data |-> IF ad = PyNone THEN mean
                                ELSE Quotient(ad.num * mean.den
                                              + mean.num * ad.den,
                                              2 * ad.den * mean.den),
                   out |-> Return(Summary(
                       "Processed {} numeric values, sum={},vg={}",
                       <<n, s, mean>>))]
    ELSE [sum_data |-> sd, avg_data |-> ad,
          out |-> Return(Summary(s_not_validate, <<>>))]

----------------------------------------------------------------------------
(* The stream handlers as a state machine: one handler object of one class *)
(* of one file is constructed, then its operations are called with batches *)
(* drawn from the items below (well-formed and malformed) or with None.    *)

SeqsUpTo(S, n) == UNION {[1..m -> S] : m \in 0..n}

Batches(items) == {PyNone} \cup {PyList(l) : l \in SeqsUpTo(items, MaxBatch)}

SensorItems ==
    { PyStr(s_temp \o <<":", "2", "2", ".", "5">>),
      PyStr(<<"h", "u", "m", "i", "d", "i", "t", "y", ":", "6", "5">>),
      PyStr(<<"p", "r", "e", "s", "s", "u", "r", "e", ":", "1", "0", "1", "3">>),
      PyStr(s_temp \o <<":", "h", "o", "t">>),
      PyStr(s_temp),
      PyInt(5) }

TransactionItems ==
    { PyStr(s_buy \o <<":", "1", "0", "0">>),
      PyStr(s_sell \o <<":", "1", "5", "0">>),
      PyStr(s_buy \o <<":", "7", "5">>),
      PyStr(s_buy \o <<":", "a", "b", "c">>),
      PyStr(<<"h", "o", "l", "d", ":", "5">>),
      PyInt(7) }

EventItems ==
    { PyStr(<<"l", "o", "g", "i", "n">>),
      PyStr(s_error),
      PyStr(<<"l", "o", "g", "o", "u", "t">>),
      PyInt(5) }

SensorCriteria == {PyNone, PyStr(<<>>), PyStr(s_temp), PyStr(s_critical)}
TransactionCriteria ==
    {PyNone, PyStr(<<>>), PyStr(s_buy), PyStr(s_large), PyStr(s_high_value)}
EventCriteria == {PyNone, PyStr(<<>>), PyStr(s_error)}

StreamFiles == {"src/ex1/data_stream.py", "src/main.py"}
StreamClasses == {"SensorStream", "TransactionStream", "EventStream"}

Fields ==
    [sensor_report |-> sensor_report, avg_t |-> avg_t, buys |-> buys,
     sells |-> sells, events |-> events, error |-> error]

\* The class body of NumericProcessor (sum_data = 0, avg_data = None) and
\* the constructor of a second handler: every aggregate is 0.
InitInstVars ==
    /\ sum_data = 0
    /\ avg_data = PyNone
    /\ other = [sensor_report |-> 0, avg_t |-> 0, buys |-> 0, sells |-> 0,
                events |-> 0, error |-> 0]

\* DataStream.__init__ and the subclass constructors: every aggregate is 0.
\* (The classes of src/main.py declare no aggregate: the fields stay 0.)
InitStream ==
    /\ file \in StreamFiles
    /\ cls \in StreamClasses
    /\ sensor_report = 0 /\ avg_t = 0
    /\ buys = 0 /\ sells = 0
    /\ events = 0 /\ error = 0
    /\ InitInstVars
    /\ calls = 0
    /\ pipes = <<>> /\ _pipelines = <<>>
    /\ last = Idle

\* The caller is done with the outcome of the last call; the next call is
\* made from here.
DropResult ==
    /\ last # Idle
    /\ last' = Idle
    /\ UNCHANGED <<file, instVars, streamVars, nexusVars, calls>>

ProcessBatchCall(batch, out) ==
    /\ calls' = calls + 1
    /\ last' = [op |-> "process_batch", batch |-> batch, pre |-> Fields,
                out |-> out]
    /\ UNCHANGED <<file, instVars, cls, nexusVars>>

FilterDataCall(batch, criteria, out) ==
    /\ calls' = calls + 1
    /\ last' = [op |-> "filter_data", batch |-> batch, criteria |-> criteria,
                pre |-> Fields, out |-> out]
    /\ UNCHANGED <<file, instVars, streamVars, nexusVars>>

SensorProcessBatch ==
    /\ file = "src/ex1/data_stream.py" /\ cls = "SensorStream"
    /\ last = Idle /\ calls < MaxCalls
    /\ \E batch \in Batches(SensorItems) :
          LET r == SensorStream_process_batch(batch, sensor_report, avg_t)
          IN  /\ sensor_report' = r.sensor_report
              /\ avg_t' = r.avg_t
              /\ UNCHANGED <<buys, sells, events, error>>
              /\ ProcessBatchCall(batch, r.out)

TransactionProcessBatch ==
    /\ file = "src/ex1/data_stream.py" /\ cls = "TransactionStream"
    /\ last = Idle /\ calls < MaxCalls
    /\ \E batch \in Batches(TransactionItems) :
          LET r == TransactionStream_process_batch(batch, buys, sells)
          IN  /\ buys' = r.buys
              /\ sells' = r.sells
              /\ UNCHANGED <<sensor_report, avg_t, events, error>>
              /\ ProcessBatchCall(batch, r.out)

EventProcessBatch ==
    /\ file = "src/ex1/data_stream.py" /\ cls = "EventStream"
    /\ last = Idle /\ calls < MaxCalls
    /\ \E batch \in Batches(EventItems) :
          LET r == EventStream_process_batch(batch, events, error)
          IN  /\ events' = r.events
              /\ error' = r.error
              /\ UNCHANGED <<sensor_report, avg_t, buys, sells>>
              /\ ProcessBatchCall(batch, r.out)

SensorFilterData ==
    /\ file = "src/ex1/data_stream.py" /\ cls = "SensorStream"
    /\ last = Idle /\ calls < MaxCalls
    /\ \E batch \in Batches(SensorItems), criteria \in SensorCriteria :
          FilterDataCall(batch, criteria,
                         DataStream_filter_data(batch, criteria))

TransactionFilterData ==
    /\ file = "src/ex1/data_stream.py" /\ cls = "TransactionStream"
    /\ last = Idle /\ calls < MaxCalls
    /\ \E batch \in Batches(TransactionItems),
          criteria \in TransactionCriteria :
          FilterDataCall(batch, criteria,
                         TransactionStream_filter_data(batch, criteria))

EventFilterData ==
    /\ file = "src/ex1/data_stream.py" /\ cls = "EventStream"
    /\ last = Idle /\ calls < MaxCalls
    /\ \E batch \in Batches(EventItems), criteria \in EventCriteria :
          FilterDataCall(batch, criteria,
                         DataStream_filter_data(batch, criteria))

main_SensorProcessBatch ==
    /\ file = "src/main.py" /\ cls = "SensorStream"
    /\ last = Idle /\ calls < MaxCalls
    /\ \E batch \in Batches(SensorItems) :
          /\ UNCHANGED <<sensor_report, avg_t, buys, sells, events, error>>
          /\ ProcessBatchCall(batch, main_SensorStream_process_batch(batch))

main_TransactionProcessBatch ==
    /\ file = "src/main.py" /\ cls = "TransactionStream"
    /\ last = Idle /\ calls < MaxCalls
    /\ \E batch \in Batches(TransactionItems) :
          /\ UNCHANGED <<sensor_report, avg_t, buys, sells, events, error>>
          /\ ProcessBatchCall(batch,
                              main_TransactionStream_process_batch(batch))

main_EventProcessBatch ==
    /\ file = "src/main.py" /\ cls = "EventStream"
    /\ last = Idle /\ calls < MaxCalls
    /\ \E batch \in Batches(EventItems) :
          /\ UNCHANGED <<sensor_report, avg_t, buys, sells, events, error>>
          /\ ProcessBatchCall(batch, main_EventStream_process_batch(batch))

main_SensorFilterData ==
    /\ file = "src/main.py" /\ cls = "SensorStream"
    /\ last = Idle /\ calls < MaxCalls
    /\ \E batch \in Batches(SensorItems), criteria \in SensorCriteria :
          FilterDataCall(batch, criteria,
                         main_SensorStream_filter_data(batch, criteria))

main_TransactionFilterData ==
    /\ file = "src/main.py" /\ cls = "TransactionStream"
    /\ last = Idle /\ calls < MaxCalls
    /\ \E batch \in Batches(TransactionItems),
          criteria \in TransactionCriteria :
          FilterDataCall(batch, criteria,
                         main_TransactionStream_filter_data(batch, criteria))

main_EventFilterData ==
    /\ file = "src/main.py" /\ cls = "EventStream"
    /\ last = Idle /\ calls < MaxCalls
    /\ \E batch \in Batches(EventItems), criteria \in EventCriteria :
          FilterDataCall(batch, criteria,
                         main_DataStream_filter_data(batch, criteria))

NextStream ==
    \/ SensorProcessBatch
    \/ TransactionProcessBatch
    \/ EventProcessBatch
    \/ SensorFilterData
    \/ TransactionFilterData
    \/ EventFilterData
    \/ main_SensorProcessBatch
    \/ main_TransactionProcessBatch
    \/ main_EventProcessBatch
    \/ main_SensorFilterData
    \/ main_TransactionFilterData
    \/ main_EventFilterData
    \/ DropResult

SpecStream == InitStream /\ [][NextStream]_vars

----------------------------------------------------------------------------
(* process_batch alone, with transaction amounts of either sign: int()     *)
(* accepts "-100" as it accepts "100".                                      *)

SignedTransactionItems ==
    { PyStr(s_buy \o <<":", "1", "0", "0">>),
      PyStr(s_sell \o <<":", "1", "5", "0">>),
      PyStr(s_buy \o <<":", "-", "1", "0", "0">>),
      PyStr(s_sell \o <<":", "-", "1", "5", "0">>),
      PyStr(s_buy \o <<":", "a", "b", "c">>) }

SignedTransactionProcessBatch ==
    /\ file = "src/ex1/data_stream.py" /\ cls = "TransactionStream"
    /\ last = Idle /\ calls < MaxCalls
    /\ \E batch \in Batches(SignedTransactionItems) :
          LET r == TransactionStream_process_batch(batch, buys, sells)
          IN  /\ buys' = r.buys
              /\ sells' = r.sells
              /\ UNCHANGED <<sensor_report, avg_t, events, error>>
              /\ ProcessBatchCall(batch, r.out)

main_SignedTransactionProcessBatch ==
    /\ file = "src/main.py" /\ cls = "TransactionStream"
    /\ last = Idle /\ calls < MaxCalls
    /\ \E batch \in Batches(SignedTransactionItems) :
          /\ UNCHANGED streamVars
          /\ ProcessBatchCall(batch,
                              main_TransactionStream_process_batch(batch))

NextCounters ==
    \/ SensorProcessBatch
    \/ SignedTransactionProcessBatch
    \/ EventProcessBatch
    \/ main_SensorProcessBatch
    \/ main_SignedTransactionProcessBatch
    \/ main_EventProcessBatch
    \/ DropResult

SpecCounters == InitStream /\ [][NextCounters]_vars

----------------------------------------------------------------------------
(* What the specification calls a well-formed item, per handler variant    *)
(* (spec 4.3: "key:value" with a numeric value; "buy"/"sell" with an       *)
(* integer magnitude; any event name), and the quantities of a batch the   *)
(* claims speak of.                                                        *)

KeyValue(item) == IsStr(item) /\ Len(split(item.s, ":")) = 2

WellFormed(c, item) ==
    CASE c = "SensorStream" ->
             KeyValue(item) /\ float(split(item.s, ":")[2]).ok
      [] c = "TransactionStream" ->
             /\ KeyValue(item)
             /\ split(item.s, ":")[1] \in {s_buy, s_sell}
             /\ int(split(item.s, ":")[2]).ok
      [] c = "EventStream" -> IsStr(item)

ValidBatch(c, batch) ==
    IsList(batch) /\ \A i \in 1..Len(batch.l) : WellFormed(c, batch.l[i])

\* sum of the magnitudes of the well-formed items of the list with this key
RECURSIVE Magnitudes(_, _)
Magnitudes(l, key) ==
    IF l = <<>> THEN 0
    ELSE (IF /\ WellFormed("TransactionStream", Head(l))
             /\ split(Head(l).s, ":")[1] = key
          THEN int(split(Head(l).s, ":")[2]).v ELSE 0)
         + Magnitudes(Tail(l), key)

ErrorMarkers(l) == Cardinality({i \in 1..Len(l) : l[i] = PyStr(s_error)})

ProcessedBatch(c) == last.op = "process_batch" /\ cls = c

\* a summary str was returned, with interpolated values
Reported == ~last.out.raised /\ Len(last.out.ret.args) > 0

\* the zero-result summary: a str that reports a count of 0
ZeroResult ==
    /\ ~last.out.raised
    /\ \/ Len(last.out.ret.args) = 0
       \/ last.out.ret.args[1] = 0

ScenarioSensorBatch ==
    PyList(<< PyStr(s_temp \o <<":", "2", "2", ".", "5">>),
              PyStr(<<"h", "u", "m", "i", "d", "i", "t", "y", ":", "6", "5">>),
              PyStr(<<"p", "r", "e", "s", "s", "u", "r", "e", ":",
                      "1", "0", "1", "3">>) >>)

ScenarioTransactionBatch ==
    PyList(<< PyStr(s_buy \o <<":", "1", "0", "0">>),
              PyStr(s_sell \o <<":", "1", "5", "0">>),
              PyStr(s_buy \o <<":", "7", "5">>) >>)

----------------------------------------------------------------------------
(* Claims about the stream handlers, checked under SpecStream.             *)

\* C1 (as claimed): a process_batch call whose batch fails validation
\* leaves every aggregate of the handler as it was before the call.
C1_FailedBatchLeavesAggregates ==
    (last.op = "process_batch" /\ ~ValidBatch(cls, last.batch))
        => Fields = last.pre

\* C3 (as claimed): process_batch never raises, and a batch that is no list
\* or holds a malformed item anywhere yields the zero-result summary.
C3_MalformedBatchGivesZeroSummary ==
    (last.op = "process_batch" /\ ~ValidBatch(cls, last.batch))
        => ZeroResult

\* C6 (as claimed): for a transaction batch, in any state of the handler,
\* the reported net flow is that batch's buys minus that batch's sells and
\* the prefix is "+" exactly when the net flow is >= 0.
C6_NetFlowOfThisBatch ==
    (ProcessedBatch("TransactionStream")
     /\ ValidBatch("TransactionStream", last.batch))
        => /\ Reported
           /\ last.out.ret.args[3] = Magnitudes(last.batch.l, s_buy)
                                       - Magnitudes(last.batch.l, s_sell)
           /\ (last.out.ret.args[2] = "+") <=> (last.out.ret.args[3] >= 0)

\* C6 (amended): the reported net flow is the handler's running total,
\* (buys before the call + the batch's buys) - (sells before the call + the
\* batch's sells), reported for every well-formed batch; the prefix is "+"
\* exactly when the reported net flow is >= 0.
C6_NetFlowIsRunningTotal ==
    ProcessedBatch("TransactionStream")
        => /\ ValidBatch("TransactionStream", last.batch) => Reported
           /\ Reported =>
                /\ last.out.ret.args[3] =
                      (last.pre.buys + Magnitudes(last.batch.l, s_buy))
                      - (last.pre.sells + Magnitudes(last.batch.l, s_sell))
                /\ (last.out.ret.args[2] = "+")
                      <=> (last.out.ret.args[3] >= 0)

\* C6 witness: the scenario batch is processed by a handler that already
\* holds totals from an earlier call.
C6_Witness ==
    /\ ProcessedBatch("TransactionStream")
    /\ last.batch = ScenarioTransactionBatch
    /\ last.pre.sells = 150 /\ last.pre.buys = 0
    /\ Reported
    /\ last.out.ret.args = <<3, "", -125>>

\* C7 (as claimed): for a valid sensor batch, in any state of the handler,
\* the reading count after the call is the number of items of that batch.
C7_ReadingCountOfThisBatch ==
    (ProcessedBatch("SensorStream") /\ ValidBatch("SensorStream", last.batch))
        => /\ Reported
           /\ last.out.ret.args[1] = Len(last.batch.l)
           /\ file = "src/ex1/data_stream.py"
                 => sensor_report = Len(last.batch.l)

\* C7 (amended): for a valid sensor batch the reading count after the call
\* is the reading count before the call (0 for a handler that keeps none)
\* plus the number of items of the batch.
C7_ReadingCountGrowsByBatch ==
    (ProcessedBatch("SensorStream") /\ ValidBatch("SensorStream", last.batch))
        => /\ Reported
           /\ last.out.ret.args[1]
                 = last.pre.sensor_report + Len(last.batch.l)
           /\ file = "src/ex1/data_stream.py"
                 => sensor_report = last.pre.sensor_report + Len(last.batch.l)

\* C7 witness: the scenario batch is processed by a handler that has
\* already counted readings.
C7_Witness ==
    /\ ProcessedBatch("SensorStream")
    /\ last.batch = ScenarioSensorBatch
    /\ last.pre.sensor_report = 2
    /\ sensor_report = 5
    /\ Reported

\* C8 (as claimed): for an event batch, in any state of the handler, the
\* reported event count is the length of that batch and the reported error
\* count is the number of its items equal to the error marker.
C8_EventCountsOfThisBatch ==
    (ProcessedBatch("EventStream") /\ ValidBatch("EventStream", last.batch))
        => /\ Reported
           /\ last.out.ret.args[1] = Len(last.batch.l)
           /\ last.out.ret.args[2] = ErrorMarkers(last.batch.l)

\* C8 (amended): the reported counts are the handler's running counts: the
\* event count before the call plus the length of the batch, and the error
\* count before the call plus the number of error markers of the batch
\* (both 0 before the call for a handler that keeps none).
C8_EventCountsGrowByBatch ==
    (ProcessedBatch("EventStream") /\ ValidBatch("EventStream", last.batch))
        => /\ Reported
           /\ last.out.ret.args[1] = last.pre.events + Len(last.batch.l)
           /\ last.out.ret.args[2]
                 = last.pre.error + ErrorMarkers(last.batch.l)

\* C8 witness: a batch with an error marker is processed by a handler that
\* already counted events and an error.
C8_Witness ==
    /\ ProcessedBatch("EventStream")
    /\ last.pre.events = 2 /\ last.pre.error = 1
    /\ IsList(last.batch)
    /\ Len(last.batch.l) = 3 /\ ErrorMarkers(last.batch.l) = 1
    /\ Reported
    /\ last.out.ret.args = <<5, 2>>

\* C10: for every handler variant and every batch, filter_data(batch, None)
\* returns the batch itself: the same items in the same order.
C10_FilterWithoutCriteriaIsIdentity ==
    (last.op = "filter_data" /\ last.criteria = PyNone)
        => last.out = Return(last.batch)

\* C10 witness: filter_data(batch, None) returned, for a batch of several
\* items, well-formed and malformed.
C10_Witness ==
    /\ last.op = "filter_data" /\ last.criteria = PyNone
    /\ cls = "TransactionStream"
    /\ IsList(last.batch) /\ Len(last.batch.l) = 3
    /\ ~ValidBatch(cls, last.batch)
    /\ ~last.out.raised

----------------------------------------------------------------------------
(* The pipelines and the manager as a state machine.  The stream fields    *)
(* are not used here; cls is "" (no stream handler is constructed).        *)

PipeFiles == {"src/ex2/nexus_pipeline.py", "src/ex2/main.py"}
PipeClasses == {"JSONAdapter", "CSVAdapter", "StreamAdapter"}
Formats == {"json", "csv", "stream", "xml"}

Payloads ==
    { PyDict([sensor |-> PyStr(s_temp), value |-> PyFloat(235),
              unit |-> PyStr(<<"C">>)]),
      PyDict([sensor |-> PyStr(s_temp)]),
      PyDict([x |-> PyInt(1)]),
      PyDict(<<>>),
      PyStr(s_user_action_timestamp),
      PyStr(s_real_time),
      PyStr(s_INVALID_DATA),
      PyStr(<<>>),
      PyNone,
      PyInt(42) }

RECURSIVE TotalStages(_)
TotalStages(ps) ==
    IF ps = <<>> THEN 0 ELSE Len(Head(ps).stages) + TotalStages(Tail(ps))

NonEmptySeqsUpTo(S, n) == UNION {[1..m -> S] : m \in 1..n}

NoStream ==
    /\ cls = ""
    /\ sensor_report = 0 /\ avg_t = 0
    /\ buys = 0 /\ sells = 0
    /\ events = 0 /\ error = 0
    /\ InitInstVars
    /\ calls = 0

\* ProcessingPipeline.__init__: one adapter, no stage yet
InitPipeline ==
    /\ file \in PipeFiles
    /\ \E c \in PipeClasses : pipes = <<[cls |-> c, stages |-> <<>>]>>
    /\ _pipelines = <<>>
    /\ NoStream
    /\ last = Idle

\* NexusManager.__init__: no pipeline registered, none constructed
InitNexus ==
    /\ file \in PipeFiles
    /\ pipes = <<>>
    /\ _pipelines = <<>>
    /\ NoStream
    /\ last = Idle

\* JSONAdapter("..."), CSVAdapter("..."), StreamAdapter("...")
NewPipeline ==
    /\ last = Idle /\ Len(pipes) < MaxPipes
    /\ \E c \in PipeClasses :
          pipes' = Append(pipes, [cls |-> c, stages |-> <<>>])
    /\ UNCHANGED <<file, instVars, streamVars, calls, _pipelines, last>>

\* src/ex2/nexus_pipeline.py: add_stage(*stages) appends every argument,
\* in order
nexus_add_stage ==
    /\ file = "src/ex2/nexus_pipeline.py" /\ last = Idle
    /\ \E i \in 1..Len(pipes) :
       \E stages \in NonEmptySeqsUpTo(StageKinds,
                                      MaxStages - TotalStages(pipes)) :
          pipes' = [pipes EXCEPT ![i].stages = @ \o stages]
    /\ UNCHANGED <<file, instVars, streamVars, calls, _pipelines, last>>

\* src/ex2/main.py: add_stage(stage) appends the stage
add_stage ==
    /\ file = "src/ex2/main.py" /\ last = Idle
    /\ TotalStages(pipes) < MaxStages
    /\ \E i \in 1..Len(pipes), stage \in StageKinds :
          pipes' = [pipes EXCEPT ![i].stages = Append(@, stage)]
    /\ UNCHANGED <<file, instVars, streamVars, calls, _pipelines, last>>

\* src/ex2/nexus_pipeline.py: add_pipeline(*pipelines) appends every
\* argument
nexus_add_pipeline ==
    /\ file = "src/ex2/nexus_pipeline.py" /\ last = Idle
    /\ \E pipelines \in NonEmptySeqsUpTo(1..Len(pipes),
                                         MaxPipes - Len(_pipelines)) :
          _pipelines' = _pipelines \o pipelines
    /\ UNCHANGED <<file, instVars, streamVars, calls, pipes, last>>

\* src/ex2/main.py: add_pipeline(pipeline) appends the pipeline
add_pipeline ==
    /\ file = "src/ex2/main.py" /\ last = Idle
    /\ Len(_pipelines) < MaxPipes
    /\ \E pipeline \in 1..Len(pipes) :
          _pipelines' = Append(_pipelines, pipeline)
    /\ UNCHANGED <<file, instVars, streamVars, calls, pipes, last>>

\* pipe.process(data), called on a pipeline object directly.  The stage
\* list is read, never assigned.
nexus_Pipeline_process ==
    /\ file = "src/ex2/nexus_pipeline.py" /\ last = Idle
    /\ \E i \in 1..Len(pipes), data \in Payloads :
          last' = [op |-> "process", pipe |-> i, data |-> data,
                   stages |-> pipes[i].stages,
                   out |-> nexus_Adapter_process(pipes[i], data)]
    /\ UNCHANGED <<file, instVars, streamVars, calls, nexusVars>>

\* a process that would keep partial state: a failing call drops the stages
\* it did not reach
Pipeline_process_dropping_unreached ==
    /\ file = "src/ex2/main.py" /\ last = Idle
    /\ \E i \in 1..Len(pipes), data \in Payloads :
          LET out == Adapter_process(pipes[i], data)
          IN  /\ last' = [op |-> "process", pipe |-> i, data |-> data,
                          stages |-> pipes[i].stages, out |-> out]
              /\ pipes' = IF out.exc = "" THEN pipes
                          ELSE [pipes EXCEPT ![i].stages =
                                    SubSeq(@, 1, Len(out.ran))]
    /\ UNCHANGED <<file, instVars, streamVars, calls, _pipelines>>

Pipeline_process ==
    /\ file = "src/ex2/main.py" /\ last = Idle
    /\ \E i \in 1..Len(pipes), data \in Payloads :
          last' = [op |-> "process", pipe |-> i, data |-> data,
                   stages |-> pipes[i].stages,
                   out |-> Adapter_process(pipes[i], data)]
    /\ UNCHANGED <<file, instVars, streamVars, calls, nexusVars>>

nexus_process_data ==
    /\ file = "src/ex2/nexus_pipeline.py" /\ last = Idle
    /\ \E data \in Payloads, format_type \in Formats :
          last' = [op |-> "process_data", data |-> data,
                   format_type |-> format_type,
                   out |-> nexus_NexusManager_process_data(pipes, _pipelines,
                                                     data, format_type)]
    /\ UNCHANGED <<file, instVars, streamVars, calls, nexusVars>>

process_data ==
    /\ file = "src/ex2/main.py" /\ last = Idle
    /\ \E data \in Payloads, format_type \in Formats :
          last' = [op |-> "process_data", data |-> data,
                   format_type |-> format_type,
                   out |-> NexusManager_process_data(
                               pipes, _pipelines, data, format_type)]
    /\ UNCHANGED <<file, instVars, streamVars, calls, nexusVars>>

\* the chain is a list the caller builds from its pipeline objects
nexus_execute_chain ==
    /\ file = "src/ex2/nexus_pipeline.py" /\ last = Idle
    /\ \E data \in Payloads, chain \in SeqsUpTo(1..Len(pipes), MaxPipes) :
          last' = [op |-> "execute_chain", data |-> data, chain |-> chain,
                   out |-> nexus_NexusManager_execute_chain(pipes, data, chain)]
    /\ UNCHANGED <<file, instVars, streamVars, calls, nexusVars>>

execute_chain ==
    /\ file = "src/ex2/main.py" /\ last = Idle
    /\ \E data \in Payloads, chain \in SeqsUpTo(1..Len(pipes), MaxPipes) :
          last' = [op |-> "execute_chain", data |-> data, chain |-> chain,
                   out |-> NexusManager_execute_chain(pipes, data,
                                                            chain)]
    /\ UNCHANGED <<file, instVars, streamVars, calls, nexusVars>>

NextPipeline ==
    \/ nexus_add_stage
    \/ add_stage
    \/ nexus_Pipeline_process
    \/ Pipeline_process
    \/ DropResult

SpecPipeline == InitPipeline /\ [][NextPipeline]_vars

NextNexus ==
    \/ NewPipeline
    \/ nexus_add_stage
    \/ add_stage
    \/ nexus_add_pipeline
    \/ add_pipeline
    \/ nexus_process_data
    \/ process_data
    \/ nexus_execute_chain
    \/ execute_chain
    \/ DropResult

SpecNexus == InitNexus /\ [][NextNexus]_vars

----------------------------------------------------------------------------
(* The stages on their own: one stage object of one file is handed one     *)
(* payload.                                                                 *)

SensorReading(value) ==
    PyDict([sensor |-> PyStr(s_temp), value |-> value,
            unit |-> PyStr(<<"C">>)])

Headers(fields) == PyList([i \in 1..Len(fields) |-> PyStr(fields[i])])

StagePayloads ==
    Payloads
    \cup { SensorReading(PyInt(40)), SensorReading(PyInt(41)),
           SensorReading(PyFloat(401)), SensorReading(PyInt(5)),
           SensorReading(PyInt(4)), SensorReading(PyFloat(49)),
           SensorReading(PyStr(<<"h", "o", "t">>)),
           PyDict([type |-> PyStr(s_csv),
                   headers |-> Headers(<<<<"a">>, <<"b">>>>),
                   count |-> PyInt(1)]),
           PyDict([headers |-> Headers(<<<<"a">>>>)]),
           PyDict([type |-> PyStr(s_csv)]),
           PyStr(<<",">>),
           PyStr(<<"a", ",", "b">>),
           PyStr(<<"a", ",", ",", "b">>),
           PyStr(<<",", "a", ",">>),
           PyList(<<PyInt(1)>>) }

InitStage ==
    /\ file \in PipeFiles
    /\ pipes = <<>>
    /\ _pipelines = <<>>
    /\ NoStream
    /\ last = Idle

StageCall(stage, data, out) ==
    /\ last' = [op |-> "stage", stage |-> stage, data |-> data, out |-> out]
    /\ UNCHANGED <<file, instVars, streamVars, calls, nexusVars>>

InputStageCall ==
    /\ file = "src/ex2/main.py" /\ last = Idle
    /\ \E data \in StagePayloads :
          StageCall("InputStage", data, InputStage_process(data))

TransformStageCall ==
    /\ file = "src/ex2/main.py" /\ last = Idle
    /\ \E data \in StagePayloads :
          StageCall("TransformStage", data, TransformStage_process(data))

OutputStageCall ==
    /\ file = "src/ex2/main.py" /\ last = Idle
    /\ \E data \in StagePayloads :
          StageCall("OutputStage", data, OutputStage_process(data))

nexus_InputStageCall ==
    /\ file = "src/ex2/nexus_pipeline.py" /\ last = Idle
    /\ \E data \in StagePayloads :
          StageCall("InputStage", data, nexus_InputStage_process(data))

nexus_TransformStageCall ==
    /\ file = "src/ex2/nexus_pipeline.py" /\ last = Idle
    /\ \E data \in StagePayloads :
          StageCall("TransformStage", data,
                    nexus_TransformStage_process(data))

nexus_OutputStageCall ==
    /\ file = "src/ex2/nexus_pipeline.py" /\ last = Idle
    /\ \E data \in StagePayloads :
          StageCall("OutputStage", data, nexus_OutputStage_process(data))

NextStage ==
    \/ InputStageCall
    \/ TransformStageCall
    \/ OutputStageCall
    \/ nexus_InputStageCall
    \/ nexus_TransformStageCall
    \/ nexus_OutputStageCall
    \/ DropResult

SpecStage == InitStage /\ [][NextStage]_vars

----------------------------------------------------------------------------
(* Properties of the pipelines and the manager.                            *)

\* the stage call and the pipeline call of the file under execution
StageOf(f, stage, data) ==
    IF f = "src/ex2/main.py" THEN Stage_process(stage, data)
    ELSE nexus_Stage_process(stage, data)

PipeOf(f, pipe, data) ==
    IF f = "src/ex2/main.py" THEN Adapter_process(pipe, data)
    ELSE nexus_Adapter_process(pipe, data)

\* the value a chain should hand back: the output of the last pipeline that
\* succeeded, the initial data when the first one fails
RECURSIVE LastGood(_, _, _, _)
LastGood(f, ps, chain, data) ==
    IF chain = <<>> THEN data
    ELSE LET r == PipeOf(f, ps[Head(chain)], data)
         IN  IF r.exc # "" THEN data
             ELSE LastGood(f, ps, Tail(chain), r.out)

\* the pipelines a chain should run: up to and including the first failure
RECURSIVE Attempted(_, _, _, _)
Attempted(f, ps, chain, data) ==
    IF chain = <<>> THEN <<>>
    ELSE LET r == PipeOf(f, ps[Head(chain)], data)
         IN  IF r.exc # "" THEN <<Head(chain)>>
             ELSE <<Head(chain)>> \o Attempted(f, ps, Tail(chain), r.out)

HasMatch(format_type) ==
    \E j \in 1..Len(_pipelines) : Matches(pipes[_pipelines[j]], format_type)

FirstMatch(format_type) ==
    _pipelines[CHOOSE j \in 1..Len(_pipelines) :
                  /\ Matches(pipes[_pipelines[j]], format_type)
                  /\ \A g \in 1..(j - 1) :
                         ~Matches(pipes[_pipelines[g]], format_type)]

\* C2: execute_chain(initial_data, chain) never lets an exception escape;
\* when a pipeline of the chain fails no later pipeline runs and the call
\* returns the output of the last pipeline that succeeded (the initial data
\* when the first pipeline fails).
C2_ChainReturnsLastGoodValue ==
    last.op = "execute_chain" =>
        /\ ~last.out.raised
        /\ last.out.ret = LastGood(file, pipes, last.chain, last.data)
        /\ last.out.invoked = Attempted(file, pipes, last.chain, last.data)

\* C4: process_data(payload, format_type) fails with PipelineError naming
\* the requested format whenever no registered pipeline matches
\* format_type; it does not return normally.
C4_NoMatchRaisesRoutingError ==
    (last.op = "process_data" /\ ~HasMatch(last.format_type)) =>
        /\ last.out.raised
        /\ last.out.exc = "PipelineError"
        /\ last.out.msg = last.format_type

\* C5: process_data invokes process on exactly one pipeline, the first one
\* in registration order whose class matches format_type; pipelines of the
\* same class registered later are not invoked.
C5_FirstMatchOnlyIsInvoked ==
    (last.op = "process_data" /\ HasMatch(last.format_type)) =>
        last.out.invoked = <<FirstMatch(last.format_type)>>

\* C9: process(data) calls the stages in the order they were added: the
\* first stage gets data, each later stage gets the output of the stage
\* before it, and the result is the output of the last stage (data itself
\* for no stage).  When a stage raises, its exception leaves process and
\* no later stage is called.
C9_StagesRunInOrderFailFast ==
    last.op = "process" =>
        LET st == last.stages
            r == last.out
            n == Len(r.ran)
        IN  /\ st = pipes[last.pipe].stages
            /\ n <= Len(st)
            /\ \A i \in 1..n : r.ran[i].stage = i
            /\ n >= 1 => r.ran[1].data = last.data
            /\ \A i \in 1..(n - 1) :
                   LET s == StageOf(file, st[i], r.ran[i].data)
                   IN  s.exc = "" /\ r.ran[i + 1].data = s.out
            /\ IF r.exc = ""
               THEN /\ n = Len(st)
                    /\ IF n = 0 THEN r.out = last.data
                       ELSE LET s == StageOf(file, st[n], r.ran[n].data)
                            IN  s.exc = "" /\ r.out = s.out
               ELSE /\ n >= 1
                    /\ StageOf(file, st[n], r.ran[n].data).exc = r.exc

\* a three-stage pipeline whose second stage raises: the first stage got
\* the payload, the second got the first one's output, the third never ran
C9_Witness ==
    /\ last.op = "process"
    /\ last.stages = <<"InputStage", "TransformStage", "OutputStage">>
    /\ last.data = PyStr(s_INVALID_DATA)
    /\ last.out.exc = "ValueError"
    /\ Len(last.out.ran) = 2
    /\ last.out.ran[2].data = PyStr(s_INVALID_DATA)

\* C11: for each of the three pipeline classes, process(input) on a
\* pipeline with no stage returns the input itself, calls no stage, leaves
\* the input as it was and raises nothing, whatever the input (None, "",
\* {} and "INVALID_DATA" included).
C11_EmptyPipelineIsIdentity ==
    (last.op = "process" /\ last.stages = <<>>) =>
        /\ last.out.exc = ""
        /\ last.out.out = last.data
        /\ last.out.arg = last.data
        /\ last.out.ran = <<>>

\* the sentinel passed to a pipeline that has no stage
C11_Witness ==
    /\ last.op = "process"
    /\ pipes[last.pipe].stages = <<>>
    /\ last.data = PyStr(s_INVALID_DATA)
    /\ last.out.exc = ""
    /\ last.out.out = PyStr(s_INVALID_DATA)

----------------------------------------------------------------------------
(* Two objects of one class.  The first stream handler owns the aggregate  *)
(* variables, the second owns the record other; both NumericProcessor      *)
(* objects have an empty __dict__, so that sum_data and avg_data read      *)
(* through either of them are the attributes of the class.                 *)

Instances == {1, 2}

NumericData ==
    {PyNone, PyStr(<<"a", "b", "c">>)}
    \cup {PyList(l) : l \in SeqsUpTo({PyInt(1), PyInt(2), PyStr(<<"5">>),
                                      PyStr(<<"a", "b", "c">>), PyNone},
                                     MaxBatch)}

\* the aggregates read through object i
Aggregates(i) ==
    IF cls = "NumericProcessor"
    THEN [sum_data |-> sum_data, avg_data |-> avg_data]
    ELSE IF i = 1 THEN Fields ELSE other

InitInstances ==
    /\ \/ file = "src/ex0/stream_processor.py" /\ cls = "NumericProcessor"
       \/ /\ file = "src/ex1/data_stream.py"
          /\ cls \in {"SensorStream", "TransactionStream"}
    /\ sensor_report = 0 /\ avg_t = 0
    /\ buys = 0 /\ sells = 0
    /\ events = 0 /\ error = 0
    /\ InitInstVars
    /\ calls = 0
    /\ pipes = <<>> /\ _pipelines = <<>>
    /\ last = Idle

InstanceCall(op, self, data, out) ==
    /\ calls' = calls + 1
    /\ last' = [op |-> op, self |-> self, data |-> data,
                seen |-> [i \in Instances |-> Aggregates(i)], out |-> out]
    /\ UNCHANGED <<file, cls, nexusVars>>

NumericProcess ==
    /\ cls = "NumericProcessor"
    /\ last = Idle /\ calls < MaxCalls
    /\ \E self \in Instances, data \in NumericData :
          LET r == NumericProcessor_process(data, sum_data, avg_data)
          IN  /\ sum_data' = r.sum_data
              /\ avg_data' = r.avg_data
              /\ UNCHANGED <<sensor_report, avg_t, buys, sells, events,
                             error, other>>
              /\ InstanceCall("process", self, data, r.out)

InstanceSensorProcessBatch ==
    /\ cls = "SensorStream"
    /\ last = Idle /\ calls < MaxCalls
    /\ \E self \in Instances, batch \in Batches(SensorItems) :
          LET mine == Aggregates(self)
              r == SensorStream_process_batch(batch, mine.sensor_report,
                                              mine.avg_t)
          IN  /\ IF self = 1
                 THEN /\ sensor_report' = r.sensor_report
                      /\ avg_t' = r.avg_t
                      /\ other' = other
                 ELSE /\ other' = [other EXCEPT
                                       !.sensor_report = r.sensor_report,
                                       !.avg_t = r.avg_t]
                      /\ UNCHANGED <<sensor_report, avg_t>>
              /\ UNCHANGED <<buys, sells, events, error, sum_data, avg_data>>
              /\ InstanceCall("process_batch", self, batch, r.out)

InstanceTransactionProcessBatch ==
    /\ cls = "TransactionStream"
    /\ last = Idle /\ calls < MaxCalls
    /\ \E self \in Instances, batch \in Batches(TransactionItems) :
          LET mine == Aggregates(self)
              r == TransactionStream_process_batch(batch, mine.buys,
                                                   mine.sells)
          IN  /\ IF self = 1
                 THEN /\ buys' = r.buys
                      /\ sells' = r.sells
                      /\ other' = other
                 ELSE /\ other' = [other EXCEPT !.buys = r.buys,
                                                !.sells = r.sells]
                      /\ UNCHANGED <<buys, sells>>
              /\ UNCHANGED <<sensor_report, avg_t, events, error, sum_data,
                             avg_data>>
              /\ InstanceCall("process_batch", self, batch, r.out)

NextInstances ==
    \/ NumericProcess
    \/ InstanceSensorProcessBatch
    \/ InstanceTransactionProcessBatch
    \/ DropResult

SpecInstances == InitInstances /\ [][NextInstances]_vars

----------------------------------------------------------------------------
(* Claims about the aggregates of the stream handlers.                     *)

\* C12 (as claimed): no successful process_batch call lowers an aggregate
\* counter: the reading count, the buy total, the sell total, the event
\* count and the error count after the call are each at least what they
\* were before it.
C12_CountersNeverDecrease ==
    (last.op = "process_batch" /\ Reported) =>
        /\ sensor_report >= last.pre.sensor_report
        /\ buys >= last.pre.buys
        /\ sells >= last.pre.sells
        /\ events >= last.pre.events
        /\ error >= last.pre.error

\* C13 (as claimed): of two objects of one class, an operation on one
\* leaves the aggregates read through the other (sums, averages, counts)
\* as they were before the operation.
C13_AggregatesArePrivate ==
    last # Idle =>
        \A i \in Instances \ {last.self} : Aggregates(i) = last.seen[i]

----------------------------------------------------------------------------
(* Claims about the stages, checked under SpecStage.                       *)

StageCalled(stage) == last.op = "stage" /\ last.stage = stage

\* a payload that is null (None) or empty (a str, list or dict of length 0)
EmptyOrNull(v) ==
    \/ v = PyNone
    \/ IsStr(v) /\ Len(v.s) = 0
    \/ IsList(v) /\ Len(v.l) = 0
    \/ IsDict(v) /\ DOMAIN v.d = {}

SensorShape(v) == IsDict(v) /\ "sensor" \in DOMAIN v.d
DelimitedShape(v) == IsStr(v) /\ \E i \in 1..Len(v.s) : v.s[i] = ","
Sentinel(v) == v = PyStr(s_INVALID_DATA)

\* C15: TransformStage.process raises (its format error, ValueError) if and
\* only if the payload equals the sentinel "INVALID_DATA"; a payload that
\* is no sensor mapping, no str with a comma and not the sentinel is
\* returned as it was passed, without error.
C15_TransformFailsOnlyOnSentinel ==
    StageCalled("TransformStage") =>
        /\ last.out.exc # "" <=> Sentinel(last.data)
        /\ Sentinel(last.data) => last.out.exc = "ValueError"
        /\ (~SensorShape(last.data) /\ ~DelimitedShape(last.data)
            /\ ~Sentinel(last.data)) =>
               /\ last.out.out = last.data
               /\ last.out.arg = last.data

\* the sentinel handed to TransformStage
C15_Witness ==
    /\ StageCalled("TransformStage")
    /\ last.data = PyStr(s_INVALID_DATA)
    /\ last.out.exc = "ValueError"

\* a mapping with a sensor key and a numeric value
NumericReading(v) ==
    /\ SensorShape(v)
    /\ "value" \in DOMAIN v.d
    /\ IsNumber(v.d["value"])

BandMarks == {s_high_range, s_low_range, nexus_s_normal_range}

\* the band marks found in an output str
Bands(out) ==
    IF IsStr(out) THEN {b \in BandMarks : Contains(out.s, b)} ELSE {}

\* C16 (as claimed): for a mapping with a sensor key and a numeric value,
\* OutputStage.process returns a reading classified into exactly one band:
\* high when value >= 40, low when value <= 5, normal otherwise.
C16_BandsIncludeBoundaries ==
    (StageCalled("OutputStage") /\ NumericReading(last.data)) =>
        LET value == Tenths(last.data.d["value"])
        IN  /\ last.out.exc = ""
            /\ Bands(last.out.out) =
                   {IF value >= 10 * 40 THEN s_high_range
                    ELSE IF value <= 10 * 5 THEN s_low_range
                    ELSE nexus_s_normal_range}

\* a mapping of the csv shape: a headers key, or type "csv"
CsvShape(v) ==
    /\ IsDict(v)
    /\ \/ "headers" \in DOMAIN v.d
       \/ Get(v.d, "type") = PyStr(s_csv)

\* C17 (as claimed): OutputStage.process returns the generic stream
\* summary for every payload that is no mapping, whatever its type, and it
\* fails, with TypeError, exactly when the payload is a mapping that has
\* neither the sensor shape nor the csv shape.
C17_OneRuleForUnrecognizedPayloads ==
    StageCalled("OutputStage") =>
        /\ ~IsDict(last.data) =>
               /\ last.out.exc = ""
               /\ last.out.out = PyStr(s_stream_summary)
        /\ last.out.exc # "" <=>
               (IsDict(last.data) /\ ~SensorShape(last.data)
                /\ ~CsvShape(last.data))
        /\ last.out.exc # "" => last.out.exc = "TypeError"

\* the str items of a list, put together again with "," between them
RECURSIVE Joined(_)
Joined(l) ==
    IF l = <<>> THEN <<>>
    ELSE IF Len(l) = 1 THEN Head(l).s
    ELSE Head(l).s \o <<",">> \o Joined(Tail(l))

\* C18 (as claimed): for a str payload that contains ",",
\* TransformStage.process returns {type: "csv", headers: F, count: 1} where
\* F is the split of the whole payload on ",": the fields hold no comma
\* and, joined with commas in order, give the payload back.
C18_HeadersAreTheSplitOfThePayload ==
    (StageCalled("TransformStage") /\ DelimitedShape(last.data)) =>
        LET o == last.out.out
        IN  /\ last.out.exc = ""
            /\ IsDict(o)
            /\ DOMAIN o.d = {"type", "headers", "count"}
            /\ o.d["type"] = PyStr(s_csv)
            /\ o.d["count"] = PyInt(1)
            /\ IsList(o.d["headers"])
            /\ \A i \in 1..Len(o.d["headers"].l) :
                   /\ IsStr(o.d["headers"].l[i])
                   /\ ~Contains(o.d["headers"].l[i].s, <<",">>)
            /\ Joined(o.d["headers"].l) = last.data.s

----------------------------------------------------------------------------
(* Claims about filter_data, checked under SpecStream.                     *)

\* the magnitude criteria of the transaction handlers
MagnitudeCriteria == {PyStr(s_large), PyStr(s_high_value)}

\* C19 (as claimed): for a batch (a list) and a non-empty criteria that is
\* not a magnitude criterion of the handler, filter_data returns the items
\* whose string form contains criteria, in their order in the batch, and
\* nothing else.
C19_FilterKeepsSubstringMatches ==
    (/\ last.op = "filter_data"
     /\ IsList(last.batch)
     /\ IsStr(last.criteria) /\ last.criteria.s # <<>>
     /\ ~(cls = "TransactionStream" /\ last.criteria \in MagnitudeCriteria))
    => LET matches(item) == Contains(str(item), last.criteria.s)
       IN  /\ ~last.out.raised
           /\ last.out.ret = PyList(SelectSeq(last.batch.l, matches))

----------------------------------------------------------------------------
(* Claims about the stage list of a pipeline, checked under SpecPipeline.  *)

\* stage list new extends stage list old at its end
Appended(old, new) ==
    /\ Len(new) > Len(old)
    /\ SubSeq(new, 1, Len(old)) = old

\* C20: a process call, successful or failing, leaves every stage list as
\* it was, so the same pipeline gives the same result for every payload
\* after the call as before it; a stage list changes only in an add_stage
\* step, which extends the list of one pipeline at its end.
C20_StageListChangesOnlyByAppend ==
    [][/\ last'.op = "process" =>
              /\ pipes' = pipes
              /\ last'.stages = pipes'[last'.pipe].stages
              /\ \A d \in Payloads :
                     PipeOf(file', pipes'[last'.pipe], d)
                         = PipeOf(file, pipes[last'.pipe], d)
       /\ pipes' # pipes =>
              /\ last' = Idle
              /\ Len(pipes') = Len(pipes)
              /\ \E i \in 1..Len(pipes) :
                    /\ Appended(pipes[i].stages, pipes'[i].stages)
                    /\ pipes'[i].cls = pipes[i].cls
                    /\ \A j \in 1..Len(pipes) : j # i => pipes'[j] = pipes[j]
      ]_vars

\* a process call failed in the first of two stages and the pipeline still
\* has both stages
C20_Witness ==
    /\ last.op = "process"
    /\ last.out.exc # ""
    /\ Len(last.out.ran) = 1
    /\ Len(pipes[last.pipe].stages) = 2
    /\ pipes[last.pipe].stages = last.stages

----------------------------------------------------------------------------
(* Claims about the payload handed to a stage, checked under SpecStage.    *)

\* C21 (as claimed): a stage does not modify the value passed in: after
\* process, returning or raising, the caller's payload has the fields and
\* values it had before the call.
C21_StagesLeaveThePayloadAlone ==
    last.op = "stage" => last.out.arg = last.data

============================================================================
